---------------------------- MODULE Spec2Model ----------------------------
(***************************************************************************)
(* A model of cyan (src/src/cyan/Cyan.ts, the second and richer of the two *)
(* variants the file holds, lines 203-622): the monadic link `Box`, its    *)
(* subclasses `GiftBox`, `Expectation` and `DelayedExpectation`, and the   *)
(* retrying `Engine.testSoftly` used by `DelayedExpectation.toBe`.         *)
(*                                                                         *)
(* JavaScript values are records [t, n, s, e]: t is the type tag, n a      *)
(* number / heap address / promise id, s a string, e the elements of an    *)
(* array of numbers.  Plain objects live in `heap`, so that a wrapped      *)
(* object can change after it was wrapped.                                 *)
(***************************************************************************)
EXTENDS Integers, Sequences, FiniteSets, TLC

VARIABLES
    heap,      \* the application's objects: address -> (own key -> value)
    cur,       \* the link the chain currently holds (receiver of the next call)
    recv,      \* the receiver of the last call, as it is after that call
    call,      \* the last call: operation, arguments, receiver before, outcome
    origin,    \* the call that made cur: its operation and argument
    steps,     \* number of calls made so far (bounds the chain)
    now,       \* the clock, in milliseconds
    promise,   \* promise id -> [st, val, at]
    poll       \* the deferred toBe call and its Engine.testSoftly loop

vars == <<heap, cur, recv, call, origin, steps, now, promise, poll>>

-----------------------------------------------------------------------------
(* Bounds of the model *)

MaxChain == 3     \* calls per behaviour
MaxPath  == 2     \* keys per glom path
Quantum  == 100   \* milliseconds the clock advances by in one step
MaxTime  == 4300  \* the clock stops here

-----------------------------------------------------------------------------
(* Constants of the program *)

Delay     == 100    \* testSoftly's default delay between attempts
TimeoutMs == 4000   \* the delay DelayedExpectation.toBe gives Timeout.wrap

-----------------------------------------------------------------------------
(* JavaScript values *)

Val(t, n, s, e) == [t |-> t, n |-> n, s |-> s, e |-> e]

Undefined   == Val("undefined", 0, "", <<>>)
Null        == Val("null", 0, "", <<>>)
NaNv        == Val("nan", 0, "", <<>>)
Num(n)      == Val("number", n, "", <<>>)
Str(s)      == Val("string", 0, s, <<>>)
Bool(b)     == Val("boolean", IF b THEN 1 ELSE 0, "", <<>>)
Ref(a)      == Val("object", a, "", <<>>)
Arr(e)      == Val("array", 0, "", e)
Fn(name)    == Val("function", 0, name, <<>>)
PromiseOf(p) == Val("promise", p, "", <<>>)
\* an instance of the private class NullSubject
NullSubject == Val("NullSubject", 0, "", <<>>)

\* ToBoolean: what `if (key)` and `!this.negate` test
Truthy(v) ==
    CASE v.t \in {"undefined", "null", "nan"} -> FALSE
      [] v.t = "number"  -> v.n # 0
      [] v.t = "boolean" -> v.n = 1
      [] v.t = "string"  -> v.s # ""
      [] OTHER -> TRUE

\* typeof v == 'object' for a non-null v
IsObject(v) == v.t \in {"object", "array", "promise", "NullSubject"}

\* entity instanceof Promise
IsPromise(v) == v.t = "promise"

\* result == null
IsNullish(v) == v.t \in {"undefined", "null"}

\* The characters of the strings the model uses ('value'[0] is 'v').
StrChars(s) ==
    CASE s = "value"  -> <<"v", "a", "l", "u", "e">>
      [] s = "hi"     -> <<"h", "i">>
      [] s = "fn"     -> <<"f", "n">>
      [] s = "entity" -> <<"e", "n", "t", "i", "t", "y">>
      [] s = ""       -> <<>>
      [] OTHER        -> <<s>>

\* A property key that is an array index, or -1
KeyIndex(k) ==
    CASE k = "0" -> 0
      [] k = "1" -> 1
      [] k = "2" -> 2
      [] OTHER   -> -1

\* ToPropertyKey: the key a value used in subject[key] names
KeyOf(v) ==
    CASE v.t = "string" -> v.s
      [] v.t = "number" /\ v.n = 0 -> "0"
      [] v.t = "number" /\ v.n = 1 -> "1"
      [] v.t = "number" /\ v.n = 2 -> "2"
      [] v.t = "number" -> "digits"
      [] OTHER -> v.t

\* The own enumerable keys of a value (Object.keys)
OwnKeys(h, v) ==
    CASE v.t = "object" -> DOMAIN h[v.n]
      [] v.t = "array"  -> {k \in {"0", "1", "2"} : KeyIndex(k) < Len(v.e)}
      [] OTHER -> {}

\* v[k] for a v that is neither null nor undefined
GetProp(h, v, k) ==
    CASE v.t = "object" -> IF k \in DOMAIN h[v.n] THEN h[v.n][k] ELSE Undefined
      [] v.t = "array"  ->
            IF KeyIndex(k) >= 0 /\ KeyIndex(k) < Len(v.e)
            THEN Num(v.e[KeyIndex(k) + 1]) ELSE Undefined
      [] v.t = "string" ->
            IF KeyIndex(k) >= 0 /\ KeyIndex(k) < Len(StrChars(v.s))
            THEN Str(StrChars(v.s)[KeyIndex(k) + 1]) ELSE Undefined
      [] OTHER -> Undefined

-----------------------------------------------------------------------------
(* deepEquals(actual, expected) of the 'deep-equal' package, called without *)
(* options, hence in its loose mode: identical values are equal, values    *)
(* that are not both objects are compared with ==, objects are compared    *)
(* by their own keys, recursively.                                         *)

TypeOf(v) ==
    CASE IsObject(v) \/ v.t = "null" -> "object"
      [] v.t = "nan" -> "number"
      [] OTHER -> v.t

\* The decimal text of a small number
DigitStr(n) ==
    CASE n = 0 -> "0"
      [] n = 1 -> "1"
      [] n = 2 -> "2"
      [] n = 3 -> "3"
      [] n = 4 -> "4"
      [] OTHER -> "digits"

\* ToNumber of a primitive: [ok |-> FALSE] stands for NaN
ToNumber(v) ==
    CASE v.t \in {"number", "boolean"} -> [ok |-> TRUE, n |-> v.n]
      [] v.t = "string" /\ v.s = ""  -> [ok |-> TRUE, n |-> 0]
      [] v.t = "string" /\ v.s = "0" -> [ok |-> TRUE, n |-> 0]
      [] v.t = "string" /\ v.s = "1" -> [ok |-> TRUE, n |-> 1]
      [] v.t = "string" /\ v.s = "2" -> [ok |-> TRUE, n |-> 2]
      [] OTHER -> [ok |-> FALSE, n |-> 0]

\* ToPrimitive of an object: an array joins its elements, anything else
\* prints as '[object Object]' (or as its source text, for a function)
ToPrimitive(v) ==
    CASE v.t = "array" /\ Len(v.e) = 0 -> Str("")
      [] v.t = "array" /\ Len(v.e) = 1 -> Str(DigitStr(v.e[1]))
      [] v.t = "array" -> Str("joined")
      [] v.t \in {"object", "promise", "NullSubject"} -> Str("[object Object]")
      [] v.t = "function" -> Str("source")
      [] OTHER -> v

\* a == b
LooseEq(a, b) ==
    LET pa == ToPrimitive(a)
        pb == ToPrimitive(b)
    IN  CASE a.t = "nan" \/ b.t = "nan" -> FALSE
          [] a.t = b.t -> a = b
          [] IsNullish(a) \/ IsNullish(b) -> IsNullish(a) /\ IsNullish(b)
          [] pa.t = "string" /\ pb.t = "string" -> pa.s = pb.s
          [] OTHER -> /\ ToNumber(pa).ok
                      /\ ToNumber(pb).ok
                      /\ ToNumber(pa).n = ToNumber(pb).n

RECURSIVE deepEquals(_, _, _)
deepEquals(h, a, b) ==
    IF a = b /\ a.t # "nan" THEN TRUE
    ELSE IF ~Truthy(a) \/ ~Truthy(b) \/ (~IsObject(a) /\ ~IsObject(b))
    THEN LooseEq(a, b)
    ELSE /\ TypeOf(a) = TypeOf(b)
         /\ OwnKeys(h, a) = OwnKeys(h, b)
         /\ \A k \in OwnKeys(h, a) :
                deepEquals(h, GetProp(h, a, k), GetProp(h, b, k))

-----------------------------------------------------------------------------
(* Functions handed to apply / map / each / filter, and methods of objects *)

Fns      == {"square", "thrower", "later"}   \* for apply
ElemFns  == {"square", "double"}             \* for map and each
Preds    == {"gt2"}                          \* for filter

\* The outcome of a call: err = "" when it returned, val / box what it returned
Ret(v)      == [err |-> "", val |-> v]
Throw(e)    == [err |-> e, val |-> Undefined]

ErrEmptyUnwrap == "An empty container cannot be unwrapped."
ErrEmptyExpect == "expect() called without arguments on empty box"
ErrFail        == "Expected yielded value to be deep equal"
ErrTimeout     == "toBe timed out waiting for promise to resolve"
ErrType        == "TypeError"
ErrThrown      == "thrown by fn"
ErrRejected    == "promise rejected"

\* fn(value) for the functions of Fns:  x => x*x,  () => { throw },  () => promise
ApplyFn(f, v) ==
    CASE f = "square"  -> Ret(IF v.t = "number" THEN Num(v.n * v.n) ELSE NaNv)
      [] f = "thrower" -> Throw(ErrThrown)
      [] f = "later"   -> Ret(PromiseOf(1))

\* x => x*x and x => x*2 on the elements of an array of numbers
ElemFn(f, n) == IF f = "square" THEN n * n ELSE n * 2

\* x => x > 2
Pred(p, n) == n > 2

\* a call that answers undefined for what is not a function
CallMethod_lenient(fnv) ==
    IF fnv.t = "function" THEN Ret(Bool(TRUE)) ELSE Ret(Undefined)

\* fn.call(subject): the methods the model's objects carry
CallMethod(fnv) ==
    IF fnv.t = "function" THEN Ret(Bool(TRUE)) ELSE Throw(ErrType)

-----------------------------------------------------------------------------
(* The links: Box, GiftBox, Expectation, DelayedExpectation.  A link is    *)
(* [klass, entity, negate]; Box and GiftBox have no negate field, which    *)
(* the model keeps undefined.                                              *)

NoBox == [klass |-> "none", entity |-> Undefined, negate |-> Undefined]

\* The outcome of a method that yields a link: the receiver after the call
\* (this), the link returned (box), and the error thrown ("" when none)
Yield(this, b) == [err |-> "", this |-> this, box |-> b]
Fail(this, e)  == [err |-> e, this |-> this, box |-> NoBox]

\* new Box(entity), new GiftBox(entity)
Box_new(entity)     == [klass |-> "Box", entity |-> entity, negate |-> Undefined]
GiftBox_new(entity) == [klass |-> "GiftBox", entity |-> entity, negate |-> Undefined]

\* static Box.with
Box_with(entity) ==
    IF IsPromise(entity) THEN GiftBox_new(entity) ELSE Box_new(entity)

\* static Box.empty
Box_empty == Box_new(NullSubject)

\* get isEmpty
isEmpty(b) == b.entity.t = "NullSubject"

\* unwrap that takes every falsy subject for the empty one
Box_unwrap_falsy(b) ==
    IF isEmpty(b) \/ ~Truthy(b.entity) THEN Throw(ErrEmptyUnwrap) ELSE Ret(b.entity)

\* unwrap without the isEmpty guard
Box_unwrap_unguarded(b) == Ret(b.entity)

\* Box.unwrap
Box_unwrap(b) ==
    IF isEmpty(b) THEN Throw(ErrEmptyUnwrap) ELSE Ret(b.entity)

\* Box.wrap
Box_wrap(b, it) == Yield(b, Box_with(it))

\* subject[key] as JavaScript evaluates it: a TypeError on null and undefined
ReadProp(h, v, k) ==
    IF IsNullish(v) THEN Throw(ErrType) ELSE Ret(GetProp(h, v, k))

\* Box.apply
Box_apply(b, f) ==
    LET value == Box_unwrap(b)
        res   == ApplyFn(f, value.val)
    IN  IF value.err # "" THEN Fail(b, value.err)
        ELSE IF res.err # "" THEN Fail(b, res.err)
        ELSE Yield(b, Box_with(res.val))

\* Array.prototype.map / filter on the unwrapped subject
ArrayMap(v, f) ==
    IF v.t # "array" THEN Throw(ErrType)
    ELSE Ret(Arr([i \in 1..Len(v.e) |-> ElemFn(f, v.e[i])]))

ArrayFilter(v, p) ==
    IF v.t # "array" THEN Throw(ErrType)
    ELSE Ret(Arr(SelectSeq(v.e, LAMBDA n : Pred(p, n))))

\* Box.each
Box_each(b, f) ==
    LET value  == Box_unwrap(b)
        mapped == ArrayMap(value.val, f)
    IN  IF value.err # "" THEN Fail(b, value.err)
        ELSE IF mapped.err # "" THEN Fail(b, mapped.err)
        ELSE Yield(b, Box_with(mapped.val))

\* Box.map
Box_map(b, f) ==
    LET value  == Box_unwrap(b)
        mapped == ArrayMap(value.val, f)
    IN  IF value.err # "" THEN Fail(b, value.err)
        ELSE IF mapped.err # "" THEN Fail(b, mapped.err)
        ELSE Yield(b, Box_with(mapped.val))

\* Box.filter
Box_filter(b, p) ==
    LET value  == Box_unwrap(b)
        picked == ArrayFilter(value.val, p)
    IN  IF value.err # "" THEN Fail(b, value.err)
        ELSE IF picked.err # "" THEN Fail(b, picked.err)
        ELSE Yield(b, Box_with(picked.val))

\* Box.its: reads this.entity[key] without unwrapping
Box_its(h, b, key) ==
    LET theProperty == ReadProp(h, b.entity, key)
    IN  IF theProperty.err # "" THEN Fail(b, theProperty.err)
        ELSE Yield(b, Box_with(theProperty.val))

\* a reducer that hands a null intermediate on:  result == null ? result : ...
traverse_keepsNull(h, result, prop) ==
    IF IsNullish(result) THEN result ELSE GetProp(h, result, prop)

\* The reducer of glom:  result == null ? undefined : result[prop]
traverse(h, result, prop) ==
    IF IsNullish(result) THEN Undefined ELSE GetProp(h, result, prop)

\* path.reduce(traverse, start)
RECURSIVE PathReduce(_, _, _)
PathReduce(h, path, acc) ==
    IF path = <<>> THEN acc
    ELSE PathReduce(h, Tail(path), traverse(h, acc, Head(path)))

\* Box.glom
Box_glom(h, b, path) ==
    LET start == Box_unwrap(b)
    IN  IF start.err # "" THEN Fail(b, start.err)
        ELSE Yield(b, Box_with(PathReduce(h, path, start.val)))

\* Box.invokes: reads this.entity[key] without unwrapping, then fn.call
Box_invokes(h, b, key) ==
    LET fn  == ReadProp(h, b.entity, key)
        res == CallMethod(fn.val)
    IN  IF fn.err # "" THEN Fail(b, fn.err)
        ELSE IF res.err # "" THEN Fail(b, res.err)
        ELSE Yield(b, Box_with(res.val))

-----------------------------------------------------------------------------
(* Expectation and DelayedExpectation *)

\* new Expectation(entity, negate), new DelayedExpectation(entity, negate)
Expectation_new(entity, negate) ==
    [klass |-> "Expectation", entity |-> entity, negate |-> negate]

DelayedExpectation_new(entity, negate) ==
    [klass |-> "DelayedExpectation", entity |-> entity, negate |-> negate]

\* a factory that makes an Expectation of every subject
Expectation_with_plain(entity, negate) == Expectation_new(entity, negate)

\* static Expectation.with
Expectation_with(entity, negate) ==
    IF IsPromise(entity) THEN DelayedExpectation_new(entity, negate)
    ELSE Expectation_new(entity, negate)

IsExpectation(b) == b.klass \in {"Expectation", "DelayedExpectation"}

\* !this.negate
NotNegate(e) == Bool(~Truthy(e.negate))

\* not that flips the flag of the receiver and returns the receiver
Expectation_not_inPlace(e) ==
    Yield([e EXCEPT !.negate = NotNegate(e)], [e EXCEPT !.negate = NotNegate(e)])

\* get Expectation.not
Expectation_not(e) ==
    LET subject == Box_unwrap(e)
    IN  IF subject.err # "" THEN Fail(e, subject.err)
        ELSE Yield(e, Expectation_with(subject.val, NotNegate(e)))

\* get DelayedExpectation.not
DelayedExpectation_not(e) ==
    LET subject == Box_unwrap(e)
    IN  IF subject.err # "" THEN Fail(e, subject.err)
        ELSE Yield(e, DelayedExpectation_new(subject.val, NotNegate(e)))

\* applyNegation that forgets the flag
applyNegation_ignored(e, value) == value

\* Expectation.applyNegation
applyNegation(e, value) ==
    IF Truthy(e.negate) THEN ~value ELSE value

\* Expectation.isTruthy
isTruthy(e, value) == applyNegation(e, value)

\* Expectation.toBe: throws through fail() when the check does not pass
Expectation_toBe(h, e, expected) ==
    LET actual == Box_unwrap(e)
        passed == isTruthy(e, deepEquals(h, actual.val, expected))
    IN  IF actual.err # "" THEN Throw(actual.err)
        ELSE IF passed = FALSE THEN Throw(ErrFail)
        ELSE Ret(Undefined)

\* Expectation.glom
Expectation_glom(h, e, path) ==
    LET start == Box_unwrap(e)
    IN  IF start.err # "" THEN Fail(e, start.err)
        ELSE Yield(e, Expectation_with(PathReduce(h, path, start.val), Undefined))

\* its that is not overridden: super.its, which yields a Box
Expectation_its_super(h, e, key) == Box_its(h, e, key)

\* its that hands the negated flag of the receiver on
Expectation_its_carries(h, e, key) ==
    LET theProperty == ReadProp(h, e.entity, key)
    IN  IF theProperty.err # "" THEN Fail(e, theProperty.err)
        ELSE Yield(e, Expectation_with(theProperty.val, e.negate))

\* Expectation.its
Expectation_its(h, e, key) ==
    LET theProperty == ReadProp(h, e.entity, key)
    IN  IF theProperty.err # "" THEN Fail(e, theProperty.err)
        ELSE Yield(e, Expectation_with(theProperty.val, Undefined))

\* Expectation.apply
Expectation_apply(e, f) ==
    LET value == Box_unwrap(e)
        res   == ApplyFn(f, value.val)
    IN  IF value.err # "" THEN Fail(e, value.err)
        ELSE IF res.err # "" THEN Fail(e, res.err)
        ELSE Yield(e, Expectation_with(res.val, Undefined))

-----------------------------------------------------------------------------
(* Method dispatch: the subclasses override its, glom, apply and not, and  *)
(* inherit wrap, unwrap, each, map, filter, invokes and expect from Box.   *)

Its(h, b, key) ==
    IF IsExpectation(b) THEN Expectation_its(h, b, key) ELSE Box_its(h, b, key)

Glom(h, b, path) ==
    IF IsExpectation(b) THEN Expectation_glom(h, b, path) ELSE Box_glom(h, b, path)

Apply(b, f) ==
    IF IsExpectation(b) THEN Expectation_apply(b, f) ELSE Box_apply(b, f)

Not(e) ==
    IF e.klass = "DelayedExpectation" THEN DelayedExpectation_not(e)
    ELSE Expectation_not(e)

\* Box.expect; a call without argument has key = undefined
Box_expect(h, b, key) ==
    LET prop    == Its(h, b, KeyOf(key))
        subject == Box_unwrap(prop.box)
        whole   == Box_unwrap(b)
    IN  IF isEmpty(b)
        THEN IF Truthy(key)
             THEN Yield(b, Expectation_with(key, Undefined))
             ELSE Fail(b, ErrEmptyExpect)
        ELSE IF key # Undefined
        THEN IF prop.err # "" THEN Fail(b, prop.err)
             ELSE IF subject.err # "" THEN Fail(b, subject.err)
             ELSE Yield(b, Expectation_with(subject.val, Undefined))
        ELSE IF whole.err # "" THEN Fail(b, whole.err)
             ELSE Yield(b, Expectation_with(whole.val, Undefined))

\* The own properties of a link, as deepEquals sees a link passed to toBe
LinkObject(c) ==
    IF IsExpectation(c)
    THEN [entity |-> c.entity, negate |-> c.negate]
    ELSE [entity |-> c.entity]

-----------------------------------------------------------------------------
(* The application's objects and the inputs of the calls *)

LinkAddr == 0     \* where a link passed as an argument lives while compared

EmptyObject == [k \in {} |-> Undefined]

\* state = { a: { b: 3 }, fn: () => true },  {},  { entity: 4 },  { b: 3 }
InitHeap ==
    [a \in 0..5 |->
        CASE a = 1 -> [a |-> Ref(2), fn |-> Fn("alwaysTrue")]
          [] a = 2 -> [b |-> Num(3)]
          [] a = 4 -> [entity |-> Num(4)]
          [] a = 5 -> [b |-> Num(3)]
          [] OTHER -> EmptyObject]

\* Assignments the application makes to its objects after wrapping them:
\* state.a = {},  state.a = null,  state.a = { b: 3 }
Mutations ==
    { [o |-> 1, k |-> "a", v |-> Ref(3)],
      [o |-> 1, k |-> "a", v |-> Null],
      [o |-> 1, k |-> "a", v |-> Ref(2)] }

\* The heap in which the link c is an object at LinkAddr
HeapWith(h, c) == [h EXCEPT ![LinkAddr] = LinkObject(c)]

WrapVals ==
    { Num(4), Num(0), Str("value"), Undefined, Null, Ref(1), Ref(4),
      Arr(<<1, 2, 3>>), Fn("alwaysTrue"), PromiseOf(1) }

ExpectArgs ==
    { Undefined, Num(4), Num(0), Str("a"), Null, Bool(FALSE),
      Ref(1), Ref(2), PromiseOf(1) }

ItsKeys == {"a", "b", "0", "fn", "entity"}

PathKeys == {"a", "b", "0"}

Paths == UNION { [1..n -> PathKeys] : n \in 0..MaxPath }

ToBeVals ==
    { Num(4), Num(16), Num(3), Num(9), Num(0), Str("value"), Str(""),
      Undefined, Null, Ref(3), Ref(5), Arr(<<2, 4, 6>>), Arr(<<3>>) }

ToBeLinks ==
    { Box_with(Num(4)), Box_with(Num(3)), Box_with(Undefined),
      Expectation_with(Num(4), Undefined) }

NoCall ==
    [op |-> "", arg |-> Undefined, key |-> "", path |-> <<>>, fn |-> "",
     link |-> NoBox, pre |-> NoBox, heap |-> InitHeap, err |-> "",
     val |-> Undefined]

-----------------------------------------------------------------------------
(* The deferred part of the state, idle in the synchronous chain *)

\* state: idle, POLLING, PASSED, FAILED, TIMED_OUT or REJECTED (the toBe call)
\* pc: where testSoftly is: none, awaitSubject, sleeping, returned or threw
\* self: the DelayedExpectation; timer: whether Timeout.wrap's timer is set
\* comparedAt: when testSoftly last compared; report: what fail() put in the error
NoReport == [made |-> FALSE, expected |-> Undefined, actual |-> Undefined]

NoPoll ==
    [state |-> "idle", pc |-> "none", self |-> NoBox, expected |-> Undefined,
     deadline |-> 0, wakeAt |-> 0, comparedAt |-> 0, passed |-> FALSE,
     actual |-> Undefined, err |-> "", report |-> NoReport, timer |-> FALSE]

Promises == {1}

InitPromise == [p \in Promises |-> [st |-> "pending", val |-> Undefined, at |-> 0]]

\* What the promises of the application resolve to, and what toBe is given
SettleVals == { Num(1), Num(2), Ref(2) }

DeferredExpected == { Num(2), Ref(5) }

-----------------------------------------------------------------------------
(* The synchronous chain: one action per method of a link *)

Init ==
    /\ heap = InitHeap
    /\ cur = Box_empty
    /\ recv = Box_empty
    /\ call = NoCall
    /\ origin = [op |-> "empty", arg |-> Undefined]
    /\ steps = 0
    /\ now = 0
    /\ promise = InitPromise
    /\ poll = NoPoll

\* A call that yields a link: on success the chain moves on to that link
Chain(c, out) ==
    /\ steps < MaxChain
    /\ steps' = steps + 1
    /\ call' = [c EXCEPT !.pre = cur, !.heap = heap, !.err = out.err]
    /\ recv' = out.this
    /\ cur' = IF out.err = "" THEN out.box ELSE cur
    /\ origin' = IF out.err = "" THEN [op |-> c.op, arg |-> c.arg] ELSE origin
    /\ UNCHANGED <<heap, now, promise, poll>>

\* A call that returns a value or nothing: the chain stays on its link
Value(c, out) ==
    /\ steps < MaxChain
    /\ steps' = steps + 1
    /\ call' = [c EXCEPT !.pre = cur, !.heap = heap, !.err = out.err,
                         !.val = out.val]
    /\ recv' = cur
    /\ UNCHANGED <<heap, cur, origin, now, promise, poll>>

\* Box.empty(): the top-level link, which holds no subject
Empty ==
    Chain([NoCall EXCEPT !.op = "empty"], Yield(cur, Box_empty))

Wrap ==
    \E v \in WrapVals :
        Chain([NoCall EXCEPT !.op = "wrap", !.arg = v], Box_wrap(cur, v))

Unwrap ==
    Value([NoCall EXCEPT !.op = "unwrap"], Box_unwrap(cur))

ApplyStep ==
    \E f \in Fns :
        Chain([NoCall EXCEPT !.op = "apply", !.fn = f], Apply(cur, f))

Each ==
    \E f \in ElemFns :
        Chain([NoCall EXCEPT !.op = "each", !.fn = f], Box_each(cur, f))

Map ==
    \E f \in ElemFns :
        Chain([NoCall EXCEPT !.op = "map", !.fn = f], Box_map(cur, f))

Filter ==
    \E p \in Preds :
        Chain([NoCall EXCEPT !.op = "filter", !.fn = p], Box_filter(cur, p))

ItsStep ==
    \E k \in ItsKeys :
        Chain([NoCall EXCEPT !.op = "its", !.key = k], Its(heap, cur, k))

GlomStep ==
    \E p \in Paths :
        Chain([NoCall EXCEPT !.op = "glom", !.path = p], Glom(heap, cur, p))

Invokes ==
    \E k \in ItsKeys :
        Chain([NoCall EXCEPT !.op = "invokes", !.key = k], Box_invokes(heap, cur, k))

Expect ==
    \E key \in ExpectArgs :
        Chain([NoCall EXCEPT !.op = "expect", !.arg = key],
              Box_expect(heap, cur, key))

NotStep ==
    /\ IsExpectation(cur)
    /\ Chain([NoCall EXCEPT !.op = "not"], Not(cur))

\* toBe(expected) on an Expectation, expected a plain value
ToBe ==
    /\ cur.klass = "Expectation"
    /\ \E x \in ToBeVals :
        Value([NoCall EXCEPT !.op = "toBe", !.arg = x],
              Expectation_toBe(heap, cur, x))

\* toBe(expected) on an Expectation, expected a link
ToBeLink ==
    /\ cur.klass = "Expectation"
    /\ \E c \in ToBeLinks :
        Value([NoCall EXCEPT !.op = "toBe", !.arg = Ref(LinkAddr), !.link = c],
              Expectation_toBe(HeapWith(heap, c), cur, Ref(LinkAddr)))

\* The application changes one of its objects
Mutate ==
    /\ \E m \in Mutations :
        /\ heap[m.o][m.k] # m.v
        /\ heap' = [heap EXCEPT ![m.o][m.k] = m.v]
    /\ UNCHANGED <<cur, recv, call, origin, steps, now, promise, poll>>

Next ==
    \/ Empty
    \/ Wrap
    \/ Unwrap
    \/ ApplyStep
    \/ Each
    \/ Map
    \/ Filter
    \/ ItsStep
    \/ GlomStep
    \/ Invokes
    \/ Expect
    \/ NotStep
    \/ ToBe
    \/ ToBeLink
    \/ Mutate

Spec == Init /\ [][Next]_vars

-----------------------------------------------------------------------------
(* DelayedExpectation.toBe and Engine.testSoftly.  JavaScript runs the     *)
(* continuation of a settled await (a microtask) before any timer, so the  *)
(* timers and the clock move only when no continuation is ready.           *)

\* the comparison that ignores the negated flag
testSoftly_test_plain(h, e, act, exp) == deepEquals(h, act, exp)

\* The test DelayedExpectation.toBe hands to testSoftly:
\* (act, exp) => this.isTruthy(deepEquals(act, exp))
testSoftly_test(h, e, act, exp) == isTruthy(e, deepEquals(h, act, exp))

\* Expectation.fail: the error describes the expected and the actual value
Expectation_fail(expected, actual) ==
    [made |-> TRUE, expected |-> expected, actual |-> actual]

\* DelayedExpectation.toBe up to its await: testSoftly runs to `await act`,
\* Timeout.wrap sets its timer.  A subject that is no promise fails at once.
DelayedExpectation_toBe(e, expected, t) ==
    LET actual == Box_unwrap(e)
    IN  IF actual.err # ""
        THEN [NoPoll EXCEPT !.state = "FAILED", !.self = e, !.expected = expected,
                            !.err = actual.err]
        ELSE IF IsPromise(actual.val)
        THEN [NoPoll EXCEPT !.state = "POLLING", !.pc = "awaitSubject", !.self = e,
                            !.expected = expected, !.deadline = t + TimeoutMs,
                            !.timer = TRUE]
        ELSE [NoPoll EXCEPT !.state = "FAILED", !.self = e, !.expected = expected,
                            !.actual = actual.val, !.err = ErrFail,
                            !.report = Expectation_fail(expected, actual.val)]

\* a loop that goes round again without sleeping
testSoftly_resume_busy(h, pl, pr, t) ==
    LET passed == testSoftly_test(h, pl.self, pr.val, pl.expected)
    IN  IF pr.st = "rejected"
        THEN [pl EXCEPT !.pc = "threw"]
        ELSE IF passed
        THEN [pl EXCEPT !.pc = "returned", !.passed = TRUE, !.actual = pr.val,
                        !.comparedAt = t]
        ELSE [pl EXCEPT !.pc = "sleeping", !.passed = FALSE, !.actual = pr.val,
                        !.comparedAt = t, !.wakeAt = t]

\* a loop that catches a rejection and tries again after the delay
testSoftly_resume_retry(h, pl, pr, t) ==
    LET passed == testSoftly_test(h, pl.self, pr.val, pl.expected)
    IN  IF pr.st = "rejected"
        THEN [pl EXCEPT !.pc = "sleeping", !.wakeAt = t + Delay]
        ELSE IF passed
        THEN [pl EXCEPT !.pc = "returned", !.passed = TRUE, !.actual = pr.val,
                        !.comparedAt = t]
        ELSE [pl EXCEPT !.pc = "sleeping", !.passed = FALSE, !.actual = pr.val,
                        !.comparedAt = t, !.wakeAt = t + Delay]

\* testSoftly after `await act` settles: compare, then return or sleep
testSoftly_resume(h, pl, pr, t) ==
    LET passed == testSoftly_test(h, pl.self, pr.val, pl.expected)
    IN  IF pr.st = "rejected"
        THEN [pl EXCEPT !.pc = "threw"]
        ELSE IF passed
        THEN [pl EXCEPT !.pc = "returned", !.passed = TRUE, !.actual = pr.val,
                        !.comparedAt = t]
        ELSE [pl EXCEPT !.pc = "sleeping", !.passed = FALSE, !.actual = pr.val,
                        !.comparedAt = t, !.wakeAt = t + Delay]

\* testSoftly after sleep(delay): the loop reads the subject again and awaits it
testSoftly_wake(pl) == [pl EXCEPT !.pc = "awaitSubject"]

\* DelayedExpectation.toBe after Timeout.wrap settled with testSoftly's outcome
DelayedExpectation_toBe_settled(pl) ==
    IF pl.pc = "threw"
    THEN [pl EXCEPT !.state = "REJECTED", !.err = ErrRejected, !.timer = FALSE]
    ELSE IF pl.passed = FALSE
    THEN [pl EXCEPT !.state = "FAILED", !.err = ErrFail, !.timer = FALSE,
                    !.report = Expectation_fail(pl.expected, pl.actual)]
    ELSE [pl EXCEPT !.state = "PASSED", !.timer = FALSE]

\* The timer is dropped and the race is never rejected
Timeout_fired_lost(pl) ==
    [pl EXCEPT !.timer = FALSE]

\* Timeout.wrap's timer fired first: toBe rejects with the timeout's reason,
\* testSoftly is not told
Timeout_fired(pl) ==
    [pl EXCEPT !.state = "TIMED_OUT", !.err = ErrTimeout, !.timer = FALSE]

\* A continuation is ready to run
AwaitReady ==
    /\ poll.pc = "awaitSubject"
    /\ promise[poll.self.entity.n].st # "pending"

RaceSettled ==
    /\ poll.state = "POLLING"
    /\ poll.pc \in {"returned", "threw"}

Runnable == AwaitReady \/ RaceSettled

SleepDue   == poll.pc = "sleeping" /\ now >= poll.wakeAt
TimeoutDue == poll.timer /\ now >= poll.deadline

\* cyan.expect(promise): expect with a promise for argument
Expect_OfPromise ==
    \E p \in Promises :
        Chain([NoCall EXCEPT !.op = "expect", !.arg = PromiseOf(p)],
              Box_expect(heap, cur, PromiseOf(p)))

\* toBe(expected) on a DelayedExpectation
ToBeDeferred ==
    /\ cur.klass = "DelayedExpectation"
    /\ poll.state = "idle"
    /\ \E x \in DeferredExpected :
        /\ poll' = DelayedExpectation_toBe(cur, x, now)
        /\ call' = [NoCall EXCEPT !.op = "toBe", !.arg = x, !.pre = cur,
                                  !.heap = heap]
    /\ recv' = cur
    /\ UNCHANGED <<heap, cur, origin, steps, now, promise>>

\* The promise settles: the application's timer calls resolve(v) or reject()
Settle ==
    /\ ~Runnable
    /\ \E p \in Promises, v \in SettleVals :
        /\ promise[p].st = "pending"
        /\ promise' = [promise EXCEPT ![p] = [st |-> "fulfilled", val |-> v, at |-> now]]
    /\ UNCHANGED <<heap, cur, recv, call, origin, steps, now, poll>>

Reject ==
    /\ ~Runnable
    /\ \E p \in Promises :
        /\ promise[p].st = "pending"
        /\ promise' = [promise EXCEPT ![p] = [st |-> "rejected", val |-> Undefined, at |-> now]]
    /\ UNCHANGED <<heap, cur, recv, call, origin, steps, now, poll>>

Resume ==
    /\ AwaitReady
    /\ poll' = testSoftly_resume(heap, poll, promise[poll.self.entity.n], now)
    /\ UNCHANGED <<heap, cur, recv, call, origin, steps, now, promise>>

Settled ==
    /\ RaceSettled
    /\ poll' = DelayedExpectation_toBe_settled(poll)
    /\ UNCHANGED <<heap, cur, recv, call, origin, steps, now, promise>>

Wake ==
    /\ ~Runnable
    /\ SleepDue
    /\ poll' = testSoftly_wake(poll)
    /\ UNCHANGED <<heap, cur, recv, call, origin, steps, now, promise>>

TimeoutFires ==
    /\ ~Runnable
    /\ TimeoutDue
    /\ poll' = Timeout_fired(poll)
    /\ UNCHANGED <<heap, cur, recv, call, origin, steps, now, promise>>

\* Time passes while a deferred toBe is under way and nothing is due
Tick ==
    /\ poll.state # "idle"
    /\ ~Runnable
    /\ ~SleepDue
    /\ ~TimeoutDue
    /\ now < MaxTime
    /\ now' = now + Quantum
    /\ UNCHANGED <<heap, cur, recv, call, origin, steps, promise, poll>>

\* The chain is built before toBe is called; the caller then awaits toBe
PollNext ==
    \/ (poll.state = "idle" /\ Expect_OfPromise)
    \/ (poll.state = "idle" /\ NotStep)
    \/ ToBeDeferred
    \/ Settle
    \/ Reject
    \/ Resume
    \/ Settled
    \/ Wake
    \/ TimeoutFires
    \/ Tick

PollSpec == Init /\ [][PollNext]_vars

\* The event loop runs every ready continuation and every due timer, and
\* time passes
FairPollSpec ==
    /\ PollSpec
    /\ WF_vars(Resume)
    /\ WF_vars(Settled)
    /\ WF_vars(Wake)
    /\ WF_vars(TimeoutFires)
    /\ WF_vars(Tick)

-----------------------------------------------------------------------------
(* The error kinds of the specification, by the messages the code throws *)

IsEmptySubjectError(e)      == e \in {ErrEmptyUnwrap, ErrEmptyExpect}
IsExpectationFailedError(e) == e = ErrFail
\* the code raises none of its own: the runtime's TypeError is the failure
IsInvalidOperationError(e)  == e = ErrType

NavigationOps == {"apply", "its", "glom", "invokes", "map", "each", "filter"}

-----------------------------------------------------------------------------
(* Properties of the synchronous chain *)

\* C1: wrap(v).unwrap() returns exactly v, for every subject v: when the
\* link the chain holds was made by wrap(v), unwrap returns v and does not fail.
C1_WrapUnwrapRoundTrip ==
    (call.op = "unwrap" /\ origin.op = "wrap")
        => (call.err = "" /\ call.val = origin.arg)

\* C1 witness: a promise was wrapped and unwrapped
C1_Witness ==
    /\ call.op = "unwrap"
    /\ origin.op = "wrap"
    /\ origin.arg = PromiseOf(1)
    /\ call.val = PromiseOf(1)

\* C2: the synchronous toBe(x) on an Expectation over s returns iff
\* deepEqual(s, x) XOR negated, and otherwise fails with the expectation error.
C2_ToBeIffDeepEqualXorNegated ==
    (call.op = "toBe" /\ call.link = NoBox) =>
        LET eq  == deepEquals(call.heap, call.pre.entity, call.arg)
            neg == Truthy(call.pre.negate)
        IN  /\ (call.err = "") <=> (eq # neg)
            /\ (call.err # "") => IsExpectationFailedError(call.err)

\* C2 witness: a negated toBe failed because subject and expected are deep equal
C2_Witness ==
    /\ call.op = "toBe"
    /\ call.link = NoBox
    /\ Truthy(call.pre.negate)
    /\ call.pre.entity.t = "object"
    /\ call.pre.entity # call.arg
    /\ call.err = ErrFail

\* C3: expect on an empty link fails with the empty-subject error when no
\* argument is given, and with any argument a yields an Expectation over a.
C3_ExpectOnEmpty ==
    (call.op = "expect" /\ isEmpty(call.pre)) =>
        IF call.arg = Undefined
        THEN IsEmptySubjectError(call.err)
        ELSE /\ call.err = ""
             /\ IsExpectation(cur)
             /\ cur.entity = call.arg

\* C4: unwrap on an empty link fails with the empty-subject error and never
\* returns the sentinel; on any other subject it returns and does not fail.
C4_UnwrapEmptyFails ==
    call.op = "unwrap" =>
        IF isEmpty(call.pre)
        THEN IsEmptySubjectError(call.err) /\ call.val # NullSubject
        ELSE call.err = ""

\* C4 witness: unwrap was called on the empty link and failed
C4_Witness ==
    /\ call.op = "unwrap"
    /\ isEmpty(call.pre)
    /\ call.err = ErrEmptyUnwrap

\* C5: on an empty link every navigation operation other than expect
\* (apply, its, glom, invokes, map, each, filter) fails with the
\* empty-subject error.
C5_NavigationOnEmptyFails ==
    (call.op \in NavigationOps /\ isEmpty(call.pre))
        => IsEmptySubjectError(call.err)

\* The value reached from s by indexing with the first i keys of path, where
\* a null or undefined intermediate value makes every later value undefined
RECURSIVE Reached(_, _, _, _)
Reached(h, s, path, i) ==
    IF i = 0 THEN s
    ELSE LET before == Reached(h, s, path, i - 1)
         IN  IF before \in {Null, Undefined} THEN Undefined
             ELSE GetProp(h, before, path[i])

C7_NavigationKeepsExpectation ==
    (call.op \in {"its", "glom", "apply"} /\ IsExpectation(call.pre) /\ call.err = "")
        => IsExpectation(cur)

\* C7 witness: its was called on an Expectation as the third call of a chain
C7_Witness ==
    /\ call.op = "its"
    /\ call.err = ""
    /\ IsExpectation(call.pre)
    /\ cur.klass = "Expectation"
    /\ steps = 3

\* C8: not yields a new Expectation over the same subject with the negated
\* flag flipped and leaves the receiver as it was; a.not.not is the same kind
\* of link as a, over the same subject, and passes toBe exactly when a does.
C8_NotFlipsAndPreserves ==
    /\ (call.op = "not" /\ call.err = "") =>
          /\ IsExpectation(cur)
          /\ cur.entity = call.pre.entity
          /\ Truthy(cur.negate) = ~Truthy(call.pre.negate)
          /\ recv = call.pre
    /\ IsExpectation(cur) =>
          LET nn == Not(Not(cur).box).box
          IN  /\ Not(cur).err = ""
              /\ nn.klass = cur.klass
              /\ nn.entity = cur.entity
              /\ Truthy(nn.negate) = Truthy(cur.negate)
              /\ \A x \in ToBeVals :
                    Expectation_toBe(heap, nn, x).err
                        = Expectation_toBe(heap, cur, x).err

\* C8 witness: not was called on a negated Expectation, which only not makes
C8_Witness ==
    /\ call.op = "not"
    /\ call.err = ""
    /\ Truthy(call.pre.negate)
    /\ ~Truthy(cur.negate)
    /\ origin.op = "not"

\* C9: toBe(c) with a link c over x passes exactly when toBe(x) passes.
C9_ToBeUnwrapsLink ==
    (call.op = "toBe" /\ call.link # NoBox) =>
        ((call.err = "")
            <=> (Expectation_toBe(call.heap, call.pre, call.link.entity).err = ""))

-----------------------------------------------------------------------------
(* Properties of the deferred toBe *)

\* The promise under test was fulfilled before the deadline of the call
FulfilledInTime ==
    /\ poll.state # "idle"
    /\ IsPromise(poll.self.entity)
    /\ promise[poll.self.entity.n].st = "fulfilled"
    /\ promise[poll.self.entity.n].at < poll.deadline

\* The value the promise settled to meets the (possibly negated) comparison
SettledValueMatches ==
    deepEquals(heap, promise[poll.self.entity.n].val, poll.expected)
        # Truthy(poll.self.negate)

\* C10: when the promise settles before the timeout to a value v, a deferred
\* toBe(x) with deepEqual(v, x), and a deferred not.toBe(x) with not
\* deepEqual(v, x), completes successfully and raises nothing: the call has
\* passed, or its continuation is ready and runs before any timer or clock step.
C10_DeferredPassesOnceSettled ==
    (FulfilledInTime /\ SettledValueMatches) =>
        \/ poll.state = "PASSED" /\ poll.err = ""
        \/ poll.state = "POLLING" /\ poll.err = "" /\ Runnable

\* C10 witness: a negated deferred toBe passed on a value that settled after
\* the call had started and before its deadline
C10_Witness ==
    /\ poll.state = "PASSED"
    /\ Truthy(poll.self.negate)
    /\ promise[1].st = "fulfilled"
    /\ promise[1].at > 0
    /\ promise[1].at < poll.deadline
    /\ ~deepEquals(heap, promise[1].val, poll.expected)

\* The states in which a deferred toBe has ended
PollTerminal == {"PASSED", "TIMED_OUT", "REJECTED", "FAILED"}

\* The failure's message tells of the timeout
IsTimeoutFailure(e) == e = ErrTimeout

C11_Outcome ==
    /\ poll.state \in {"idle", "POLLING", "PASSED", "TIMED_OUT", "REJECTED"}
    /\ poll.state = "PASSED" =>
            /\ poll.err = ""
            /\ promise[poll.self.entity.n].st = "fulfilled"
            /\ SettledValueMatches
            /\ poll.comparedAt < poll.deadline + Quantum
    /\ poll.state = "TIMED_OUT" =>
            /\ IsTimeoutFailure(poll.err)
            /\ now >= poll.deadline
    /\ poll.state = "REJECTED" =>
            /\ promise[poll.self.entity.n].st = "rejected"
            /\ poll.err = ErrRejected

C12_VariantBySubject ==
    /\ cur.klass \in {"Box", "GiftBox", "Expectation", "DelayedExpectation"}
    /\ ~IsExpectation(cur) => (cur.klass = "GiftBox" <=> IsPromise(cur.entity))
    /\ IsExpectation(cur) =>
            (cur.klass = "DelayedExpectation" <=> IsPromise(cur.entity))
    /\ (call.op = "not" /\ call.err = "" /\ call.pre.klass = "DelayedExpectation") =>
            /\ cur.klass = "DelayedExpectation"
            /\ cur.entity = call.pre.entity

\* C12 witness: not on a DelayedExpectation over a promise gave a negated
\* DelayedExpectation over that promise
C12_Witness ==
    /\ call.op = "not"
    /\ call.err = ""
    /\ call.pre.klass = "DelayedExpectation"
    /\ IsPromise(call.pre.entity)
    /\ cur.klass = "DelayedExpectation"
    /\ cur.entity = call.pre.entity
    /\ Truthy(cur.negate)

\* The call was invokes(key) on a subject whose property key is not callable
InvokesNotCallable ==
    /\ call.op = "invokes"
    /\ \/ IsNullish(call.pre.entity)
       \/ GetProp(call.heap, call.pre.entity, call.key).t # "function"

\* The call was map, each or filter on a subject that is not an array
SequenceOpOnNonArray ==
    /\ call.op \in {"map", "each", "filter"}
    /\ ~isEmpty(call.pre)
    /\ call.pre.entity.t # "array"

C14_NoPollAfterTimedOut ==
    [][poll.state = "TIMED_OUT" =>
          /\ poll'.pc = poll.pc
          /\ poll'.actual = poll.actual
          /\ poll'.comparedAt = poll.comparedAt
          /\ poll'.wakeAt = poll.wakeAt]_vars

\* Where a rejection of the subject leaves a deferred toBe
C15_RejectionPropagates ==
    /\ poll.state = "REJECTED" =>
            /\ poll.err = ErrRejected
            /\ poll.pc = "threw"
            /\ promise[poll.self.entity.n].st = "rejected"
    /\ poll.pc = "threw" =>
            /\ promise[poll.self.entity.n].st = "rejected"
            /\ poll.state \in {"POLLING", "REJECTED", "TIMED_OUT"}
    /\ (/\ poll.state # "idle"
        /\ promise[poll.self.entity.n].st = "rejected"
        /\ promise[poll.self.entity.n].at < poll.deadline) =>
            \/ poll.state = "REJECTED"
            \/ poll.state = "POLLING" /\ Runnable
    /\ poll.pc = "sleeping" =>
            /\ promise[poll.self.entity.n].st = "fulfilled"
            /\ ~poll.passed
            /\ ~SettledValueMatches

\* C15: in a deferred toBe a rejection of the subject is not retried: the
\* loop ends at that attempt for good, and toBe fails with the promise's own
\* reason; another attempt begins only out of the sleep that follows a
\* comparison that failed.
C15_RejectionNotRetried ==
    /\ []C15_RejectionPropagates
    /\ [][poll.pc = "threw" =>
            /\ poll'.pc = "threw"
            /\ poll'.comparedAt = poll.comparedAt
            /\ poll'.wakeAt = poll.wakeAt]_vars
    /\ [][(poll.state # "idle" /\ poll.pc # "awaitSubject" /\ poll'.pc = "awaitSubject") =>
            /\ poll.pc = "sleeping"
            /\ ~poll.passed
            /\ promise[poll.self.entity.n].st = "fulfilled"]_vars

\* C15 witness: the promise rejected while the call was polling, and toBe
\* failed with the promise's reason before the deadline
C15_Witness ==
    /\ poll.state = "REJECTED"
    /\ poll.err = ErrRejected
    /\ promise[poll.self.entity.n].st = "rejected"
    /\ promise[poll.self.entity.n].at > 0
    /\ now < poll.deadline

\* A step in which the loop of testSoftly begins another attempt
NextAttemptBegins ==
    /\ poll.state # "idle"
    /\ poll.pc # "awaitSubject"
    /\ poll'.pc = "awaitSubject"

\* A step in which an attempt ends: the subject has been read and compared
AttemptEnds ==
    /\ poll.pc = "awaitSubject"
    /\ poll'.pc \in {"returned", "sleeping"}

\* C16: within one deferred toBe the attempts come one after the other: the
\* next attempt begins only when the one before has ended in a failed
\* comparison and the delay has been slept since; every attempt compares the
\* value the subject has at that attempt; and the loop returns at the first
\* attempt whose (possibly negated) comparison passes, after which it neither
\* sleeps nor reads nor compares again.
C16_AttemptsSequential ==
    /\ [][NextAttemptBegins =>
            /\ poll.pc = "sleeping"
            /\ ~poll.passed
            /\ now >= poll.comparedAt + Delay]_vars
    /\ [][AttemptEnds =>
            /\ poll'.actual = promise[poll.self.entity.n].val
            /\ poll'.comparedAt = now
            /\ poll'.passed = testSoftly_test(heap, poll.self, poll'.actual, poll.expected)
            /\ poll'.pc = (IF poll'.passed THEN "returned" ELSE "sleeping")]_vars
    /\ [][poll.pc = "returned" =>
            /\ poll'.pc = "returned"
            /\ poll'.passed
            /\ poll'.actual = poll.actual
            /\ poll'.comparedAt = poll.comparedAt
            /\ poll'.wakeAt = poll.wakeAt]_vars

\* C16 witness: the loop is in its third attempt or later, each begun one
\* delay after the comparison before it had failed
C16_Witness ==
    /\ poll.state = "POLLING"
    /\ poll.pc = "awaitSubject"
    /\ ~poll.passed
    /\ promise[poll.self.entity.n].st = "fulfilled"
    /\ poll.comparedAt >= promise[poll.self.entity.n].at + Delay
    /\ now >= poll.comparedAt + Delay

\* C17: when a deferred toBe ends in TIMED_OUT, the failure it raises carries
\* the expected value and the last actual value the loop saw, as the failure
\* of a synchronous toBe does.
C17_TimeoutCarriesValues ==
    poll.state = "TIMED_OUT" =>
        /\ poll.report.made
        /\ poll.report.expected = poll.expected
        /\ poll.report.actual = poll.actual

\* C18: negation does not carry across navigation: its, glom and apply on an
\* expectation return an expectation whose negated flag is not set, whatever
\* the flag of the receiver; so a toBe that follows the navigation step
\* directly passes exactly when the values are deep equal.
C18_NavigationDropsNegation ==
    /\ (call.op \in {"its", "glom", "apply"} /\ IsExpectation(call.pre) /\ call.err = "") =>
            /\ IsExpectation(cur)
            /\ ~Truthy(cur.negate)
    /\ (/\ call.op = "toBe"
        /\ call.link.klass = "none"
        /\ origin.op \in {"its", "glom", "apply"}) =>
            (call.err = "" <=> deepEquals(call.heap, cur.entity, call.arg))

\* C18 witness: its on a negated expectation gave an expectation that is not
\* negated
C18_Witness ==
    /\ call.op = "its"
    /\ call.err = ""
    /\ IsExpectation(call.pre)
    /\ Truthy(call.pre.negate)
    /\ IsExpectation(cur)
    /\ ~Truthy(cur.negate)

=============================================================================
